---- MODULE Spec2Model ----
(***************************************************************************)
(* pbalign: the GMAP database build-once protocol (alignservice/gmap.py)   *)
(* and the temporary file manager (utils/tempfileutil.py).                 *)
(*                                                                         *)
(* A path is a sequence of name components.  The filesystem fs maps every  *)
(* existing path to its kind and is shared by all processes; every call of *)
(* isExist / backticks is one atomic step.                                 *)
(***************************************************************************)
EXTENDS Naturals, Integers, Sequences, FiniteSets, TLC

\* ------------------------------------------------------------------ bounds
\* processes that call _gmapCreateDB, and calls each of them makes
NProcs == 2
MaxCalls == 2
\* calls each process makes in the fair specification
LiveCalls == 1

Procs == 1..NProcs

\* processes that race on one absent database, each with LiveCalls calls
NRacers == 3

Racers == 1..NRacers

\* every process of the model
Pids == Procs \cup Racers

\* ------------------------------------------------------- filesystem paths
referenceFile == <<"repo", "sequence", "ref.fasta">>

dirname(p) == SubSeq(p, 1, Len(p) - 1)

\* path.split(p)[0]
splitHead(p) == SubSeq(p, 1, Len(p) - 1)

join(root, name) == Append(root, name)

\* dbLock = dbPath + ".lock"
lockOf(p) == Append(dirname(p), p[Len(p)] \o ".lock")

RepoDbPath == join(splitHead(dirname(referenceFile)), "gmap_db")

\* names that tempfile.mkdtemp / tempfile.mkstemp generate, in the order in
\* which the model hands them out
TmpNames == <<"a", "b">>

\* depth of the deepest path of the model
MaxDepth == 3

\* top-level directories: a shared scratch directory, the platform's default
\* temporary directory, a name that does not exist yet, and a regular file
TopNames == {"scratch", "tmp", "new", "afile"}

\* tempfile.gettempdir()
gettempdir == <<"tmp">>

\* a file that another job left in the shared scratch directory
oldFile == <<"scratch", "old">>

\* os.getcwd() and the home directory of the user
getcwd == <<"scratch">>
homedir == <<"tmp">>

\* q is p or lies under p
IsUnder(q, p) == Len(q) >= Len(p) /\ SubSeq(q, 1, Len(p)) = p

\* path.abspath(path.expanduser(p)): "~" is the home directory and a path
\* that starts with "." is relative to the current directory
expanduser(p) == IF p # << >> /\ Head(p) = "~" THEN homedir \o Tail(p) ELSE p
abspath(p) == IF p # << >> /\ Head(p) = "." THEN getcwd \o Tail(p) ELSE p

VARIABLES
    fs,           \* the shared filesystem: existing path -> "file" or "dir"
    pc,           \* position of each process in _gmapCreateDB
    dbRoot,       \* local dbRoot of each process
    dbName,       \* local dbName of each process
    errCode,      \* local errCode of each process (last backticks result)
    invoked,      \* history: number of gmap_build invocations of each process
    hist,         \* history: outcome of each finished call of each process
    startBuilt,   \* history: target present and marker absent when the call began
    lockCreator,  \* history: the process whose touch created the present marker, 0 if none
    lastBuildRc,  \* history: exit code of the gmap_build that exited last, -1 if none
    made,         \* whether the TempFileManager of each process is constructed
    defaultRootDir, \* TempFileManager.defaultRootDir of each process, << >> is ""
    fileDB,       \* TempFileManager.fileDB of each process
    dirDB,        \* TempFileManager.dirDB of each process
    tfmOut,       \* history: the last TempFileManager call of each process and its outcome
    nCalls,       \* history: number of TempFileManager calls of each process
    items,        \* _resolveAlgorithmOptions: local items
    idx,          \* _resolveAlgorithmOptions: local i
    nproc,        \* options.nproc, 0 is None
    optPc         \* position in _resolveAlgorithmOptions

protoVars == << pc, dbRoot, dbName, errCode, invoked, hist, startBuilt,
                lockCreator, lastBuildRc >>

tfmVars == << made, defaultRootDir, fileDB, dirDB, tfmOut, nCalls >>

optVars == << items, idx, nproc, optPc >>

vars == << fs, protoVars, tfmVars, optVars >>

\* fileutil.isExist on a filesystem value
Exists(fsys, p) == p \in DOMAIN fsys

\* path.isdir on a filesystem value
IsDir(fsys, p) == p \in DOMAIN fsys /\ fsys[p] = "dir"

\* the filesystem with path p created (or kept) as kind
create(fsys, p, kind) ==
    [q \in DOMAIN fsys \cup {p} |-> IF q = p THEN kind ELSE fsys[q]]

\* os.remove(p), rm -f p
remove(fsys, p) == [q \in DOMAIN fsys \ {p} |-> fsys[q]]

\* shutil.rmtree that deletes nothing
rmtree_KeepsTree(fsys, p) == fsys

\* shutil.rmtree(p)
rmtree(fsys, p) == [q \in { x \in DOMAIN fsys : ~IsUnder(x, p) } |-> fsys[q]]

Prefixes(p) == { SubSeq(p, 1, k) : k \in 1..Len(p) }

\* os.makedirs(p) succeeds iff no component of p is a regular file
CanMakedirs(fsys, p) == \A q \in Prefixes(p) : ~Exists(fsys, q) \/ fsys[q] = "dir"

makedirs(fsys, p) ==
    [q \in DOMAIN fsys \cup Prefixes(p) |-> IF q \in Prefixes(p) THEN "dir" ELSE fsys[q]]

isExist(p) == Exists(fs, p)

dbPath(p) == join(dbRoot[p], dbName[p])
dbLock(p) == lockOf(dbPath(p))

\* processes whose gmap_build subprocess is running
building == { p \in Pids : pc[p] = "building" }

\* ------------------------------------------------------------------- Init
Init ==
    /\ fs = [p \in { splitHead(dirname(referenceFile)), dirname(referenceFile),
                      referenceFile, <<"scratch">>, oldFile, gettempdir,
                      <<"afile">> } |->
               IF p \in {referenceFile, oldFile, <<"afile">>} THEN "file" ELSE "dir"]
    /\ pc = [p \in Pids |-> "idle"]
    /\ dbRoot = [p \in Pids |-> << >>]
    /\ dbName = [p \in Pids |-> ""]
    /\ errCode = [p \in Pids |-> 0]
    /\ invoked = [p \in Pids |-> 0]
    /\ hist = [p \in Pids |-> << >>]
    /\ startBuilt = [p \in Pids |-> FALSE]
    /\ lockCreator = 0
    /\ lastBuildRc = -1
    /\ made = [p \in Pids |-> FALSE]
    /\ defaultRootDir = [p \in Pids |-> << >>]
    /\ fileDB = [p \in Pids |-> << >>]
    /\ dirDB = [p \in Pids |-> << >>]
    /\ tfmOut = [p \in Pids |-> [op |-> "none", outcome |-> "none", log |-> << >>]]
    /\ nCalls = [p \in Pids |-> 0]
    /\ items = << >>
    /\ idx = 0
    /\ nproc = 0
    /\ optPc = "idle"

\* ------------------------------------------------- _gmapCreateDB, by step
\* return (dbRoot, dbName): how is "fast" (line 228), "found" (line 266 with
\* the build skipped) or "built" (line 266 after the build).
Return(p, how) ==
    /\ pc' = [pc EXCEPT ![p] = "returned"]
    /\ hist' = [hist EXCEPT ![p] = Append(@, how)]

\* raise RuntimeError(errMsg)
Raise(p, how) ==
    /\ pc' = [pc EXCEPT ![p] = "raised"]
    /\ hist' = [hist EXCEPT ![p] = Append(@, how)]

\* backticks("rm -f {dbLock}")
RmLock(p) ==
    /\ fs' = remove(fs, dbLock(p))
    /\ lockCreator' = 0

\* line 219: "gmap_db_{sfx}" with sfx = randint(100000, 1000000), two of
\* the values it can take
RandNames == {"gmap_db_100000", "gmap_db_1000000"}

\* lines 198-222: choose dbRoot and dbName, compute dbPath and dbLock
Call(p, isWithinRepository, tempRootDir) ==
    /\ pc[p] \in {"idle", "returned", "raised"}
    /\ UNCHANGED << tfmVars, optVars >>
    /\ Len(hist[p]) < MaxCalls
    /\ \E name \in IF isWithinRepository THEN {"gmap_db"} ELSE RandNames :
         LET root == IF isWithinRepository
                     THEN splitHead(dirname(referenceFile))
                     ELSE tempRootDir
         IN  /\ dbRoot' = [dbRoot EXCEPT ![p] = root]
             /\ dbName' = [dbName EXCEPT ![p] = name]
             /\ startBuilt' = [startBuilt EXCEPT ![p] =
                     isExist(join(root, name)) /\ ~isExist(lockOf(join(root, name)))]
    /\ pc' = [pc EXCEPT ![p] = "L224"]
    /\ UNCHANGED << fs, errCode, invoked, hist, lockCreator, lastBuildRc >>

\* line 224, left operand: isExist(dbPath)
L224(p) ==
    /\ pc[p] = "L224"
    /\ UNCHANGED << tfmVars, optVars >>
    /\ pc' = [pc EXCEPT ![p] = IF isExist(dbPath(p)) THEN "L224lock" ELSE "L231"]
    /\ UNCHANGED << fs, dbRoot, dbName, errCode, invoked, hist, startBuilt,
                    lockCreator, lastBuildRc >>

\* line 224, right operand: not isExist(dbLock); lines 225-228
L224lock(p) ==
    /\ pc[p] = "L224lock"
    /\ UNCHANGED << tfmVars, optVars >>
    /\ IF ~isExist(dbLock(p))
       THEN Return(p, "fast")
       ELSE /\ pc' = [pc EXCEPT ![p] = "L231"]
            /\ UNCHANGED hist
    /\ UNCHANGED << fs, dbRoot, dbName, errCode, invoked, startBuilt,
                    lockCreator, lastBuildRc >>

\* a wait loop that gives up waiting although the marker is present
L231_TimesOut(p) ==
    /\ pc[p] = "L231"
    /\ UNCHANGED << tfmVars, optVars >>
    /\ pc' = [pc EXCEPT ![p] = "L237"]
    /\ UNCHANGED << fs, dbRoot, dbName, errCode, invoked, hist, startBuilt,
                    lockCreator, lastBuildRc >>

\* lines 231-234: while isExist(dbLock): sleep(10)
L231(p) ==
    /\ pc[p] = "L231"
    /\ UNCHANGED << tfmVars, optVars >>
    /\ pc' = [pc EXCEPT ![p] = IF isExist(dbLock(p)) THEN "L231" ELSE "L237"]
    /\ UNCHANGED << fs, dbRoot, dbName, errCode, invoked, hist, startBuilt,
                    lockCreator, lastBuildRc >>

\* line 237: if not isExist(dbPath); else line 266
L237(p) ==
    /\ pc[p] = "L237"
    /\ UNCHANGED << tfmVars, optVars >>
    /\ IF ~isExist(dbPath(p))
       THEN /\ pc' = [pc EXCEPT ![p] = "L239"]
            /\ UNCHANGED hist
       ELSE Return(p, "found")
    /\ UNCHANGED << fs, dbRoot, dbName, errCode, invoked, startBuilt,
                    lockCreator, lastBuildRc >>

\* lines 239-243: backticks("touch {dbLock}") and the test of its errCode
L239(p) ==
    /\ pc[p] = "L239"
    /\ UNCHANGED << tfmVars, optVars >>
    /\ \E rc \in {0, 1} :
         /\ errCode' = [errCode EXCEPT ![p] = rc]
         /\ IF rc = 0
            THEN /\ fs' = create(fs, dbLock(p), "file")
                 /\ lockCreator' = IF isExist(dbLock(p)) THEN lockCreator ELSE p
                 /\ pc' = [pc EXCEPT ![p] = "L253"]
            ELSE /\ pc' = [pc EXCEPT ![p] = "L246"]
                 /\ UNCHANGED << fs, lockCreator >>
    /\ UNCHANGED << dbRoot, dbName, invoked, hist, startBuilt, lastBuildRc >>

\* lines 246-247: touch failed: rm -f dbLock, raise
L246(p) ==
    /\ pc[p] = "L246"
    /\ UNCHANGED << tfmVars, optVars >>
    /\ RmLock(p)
    /\ Raise(p, "touchfail")
    /\ UNCHANGED << dbRoot, dbName, errCode, invoked, startBuilt, lastBuildRc >>

\* lines 251-253: backticks(cmdStr) starts gmap_build
L253(p) ==
    /\ pc[p] = "L253"
    /\ UNCHANGED << tfmVars, optVars >>
    /\ pc' = [pc EXCEPT ![p] = "building"]
    /\ invoked' = [invoked EXCEPT ![p] = @ + 1]
    /\ UNCHANGED << fs, dbRoot, dbName, errCode, hist, startBuilt,
                    lockCreator, lastBuildRc >>

\* the running gmap_build creates its output directory dbRoot/dbName
BuildWrite(p) ==
    /\ pc[p] = "building"
    /\ UNCHANGED << tfmVars, optVars >>
    /\ ~isExist(dbPath(p))
    /\ fs' = create(fs, dbPath(p), "dir")
    /\ UNCHANGED << pc, dbRoot, dbName, errCode, invoked, hist, startBuilt,
                    lockCreator, lastBuildRc >>

\* gmap_build exits: backticks returns errCode (line 253); on exit code 0
\* the database directory is written, on failure what was written stays
BuildExit(p) ==
    /\ pc[p] = "building"
    /\ UNCHANGED << tfmVars, optVars >>
    /\ \E rc \in {0, 1} :
         /\ errCode' = [errCode EXCEPT ![p] = rc]
         /\ lastBuildRc' = rc
         /\ fs' = IF rc = 0 THEN create(fs, dbPath(p), "dir") ELSE fs
    /\ pc' = [pc EXCEPT ![p] = "L255"]
    /\ UNCHANGED << dbRoot, dbName, invoked, hist, startBuilt, lockCreator >>

\* L255 with the marker left in place when the build failed
L255_NoRmOnFailure(p) ==
    /\ pc[p] = "L255"
    /\ UNCHANGED << tfmVars, optVars >>
    /\ IF errCode[p] # 0
       THEN Raise(p, "buildfail") /\ UNCHANGED << fs, lockCreator >>
       ELSE Return(p, "built") /\ RmLock(p)
    /\ UNCHANGED << dbRoot, dbName, errCode, invoked, startBuilt, lastBuildRc >>

\* L255 with the marker left in place when the build succeeded
L255_NoRmOnSuccess(p) ==
    /\ pc[p] = "L255"
    /\ UNCHANGED << tfmVars, optVars >>
    /\ IF errCode[p] # 0
       THEN Raise(p, "buildfail") /\ RmLock(p)
       ELSE Return(p, "built") /\ UNCHANGED << fs, lockCreator >>
    /\ UNCHANGED << dbRoot, dbName, errCode, invoked, startBuilt, lastBuildRc >>

\* lines 255-266: on failure rm -f dbLock and raise; on success rm -f dbLock
\* and return
L255(p) ==
    /\ pc[p] = "L255"
    /\ UNCHANGED << tfmVars, optVars >>
    /\ RmLock(p)
    /\ IF errCode[p] # 0 THEN Raise(p, "buildfail") ELSE Return(p, "built")
    /\ UNCHANGED << dbRoot, dbName, errCode, invoked, startBuilt, lastBuildRc >>

\* the steps of one call after its entry
Step(p) ==
    \/ L224(p)
    \/ L224lock(p)
    \/ L231(p)
    \/ L237(p)
    \/ L239(p)
    \/ L246(p)
    \/ L253(p)
    \/ BuildWrite(p)
    \/ BuildExit(p)
    \/ L255(p)

_gmapCreateDB(p) ==
    \/ Call(p, TRUE, << >>)
    \/ Step(p)

Next == \E p \in Procs : _gmapCreateDB(p)

Spec == Init /\ [][Next]_vars

\* Each process calls _gmapCreateDB LiveCalls times; every process keeps
\* running and every command it started terminates.
LiveProc(p) ==
    \/ Len(hist[p]) < LiveCalls /\ Call(p, TRUE, << >>)
    \/ Step(p)

FairNext == \E p \in Procs : LiveProc(p)

FairSpec == Init /\ [][FairNext]_vars /\ \A p \in Procs : WF_vars(LiveProc(p))

\* the same calls when a process may stop for good at any step (it is
\* killed, or its machine goes down)
StopSpec == Init /\ [][FairNext]_vars

\* NRacers processes that each call _gmapCreateDB on the same repository
RaceNext == \E p \in Racers : LiveProc(p)

RaceSpec == Init /\ [][RaceNext]_vars

\* ------------------------------------------------------ TempFileManager
\* entries that one TempFileManager may hold in fileDB and dirDB together
MaxReg == 3

\* calls made on one TempFileManager, its construction included
MaxOps == 4

\* the processes whose TempFileManager is exercised
Managers == {1}

\* one more call on the TempFileManager of p
Called(p) ==
    /\ nCalls[p] < MaxOps
    /\ nCalls' = [nCalls EXCEPT ![p] = @ + 1]

maxTry == 5

TempFile(name, own, isDir) == [name |-> name, own |-> own, isDir |-> isDir]

NamesOf(db) == { db[i].name : i \in DOMAIN db }

\* the names of the entries of db with own = True
OwnedOf(db) == { db[i].name : i \in { j \in DOMAIN db : db[j].own } }

\* the result of a TempFileManager call, kept for the claims
Out(op, outcome, log) == [op |-> op, outcome |-> outcome, log |-> log]

\* mkdtemp / mkstemp that hands back the directory it was given
Fresh_Same(fsys, d) == {d}

\* the path tempfile.mkdtemp(dir=d) / tempfile.mkstemp(dir=d) creates: a
\* name that does not exist in d.  Which unused name is generated makes no
\* difference, the model takes the first one; the set is empty when every
\* name is in use.
Fresh(fsys, d) ==
    LET free == { i \in DOMAIN TmpNames : ~Exists(fsys, Append(d, TmpNames[i])) }
    IN  { Append(d, TmpNames[i]) : i \in { j \in free : \A k \in free : j <= k } }

\* lines 82-113: the outcomes of SetRootDir(rootDirIn) on filesystem fsys
\* with directory collection ddb.  mkdtemp and makedirs may fail.
SetRootDirResults(fsys, ddb, rootDirIn) ==
    LET rootDir == IF rootDirIn # << >> THEN abspath(expanduser(rootDirIn)) ELSE << >>
        made1(t) == [fs |-> create(fsys, t, "dir"),
                     dirDB |-> Append(ddb, TempFile(t, TRUE, TRUE)),
                     root |-> t, outcome |-> "ok"]
        \* lines 105-111
        Fallback ==
            { made1(t) : t \in Fresh(fsys, gettempdir) }
            \cup { [fs |-> fsys, dirDB |-> ddb, root |-> << >>, outcome |-> "ok"] }
    IN  IF rootDir # << >> /\ IsDir(fsys, rootDir)
        THEN \* lines 87-93: mkdtemp(dir=rootDir), its exception is not caught
             { made1(t) : t \in Fresh(fsys, rootDir) }
             \cup { [fs |-> fsys, dirDB |-> ddb, root |-> << >>, outcome |-> "OSError"] }
        ELSE IF rootDir # << >> /\ ~Exists(fsys, rootDir)
        THEN \* lines 94-103
             ( IF CanMakedirs(fsys, rootDir)
               THEN { [fs |-> makedirs(fsys, rootDir),
                       dirDB |-> Append(ddb, TempFile(rootDir, TRUE, TRUE)),
                       root |-> rootDir, outcome |-> "ok"] }
               ELSE { } )
             \cup Fallback
        ELSE Fallback

\* the rootDir arguments tried
RootInputs ==
    { << >>, <<"scratch">>, <<".">>, <<"new">>, <<"afile">>, <<"afile", "a">> }

\* lines 65-71: TempFileManager(rootDir)
TempFileManager(p, rootDir) ==
    /\ ~made[p]
    /\ Called(p)
    /\ \E r \in SetRootDirResults(fs, << >>,
                    IF rootDir # << >> THEN abspath(expanduser(rootDir)) ELSE rootDir) :
         /\ fs' = r.fs
         /\ IF r.outcome = "ok"
            THEN /\ made' = [made EXCEPT ![p] = TRUE]
                 /\ dirDB' = [dirDB EXCEPT ![p] = r.dirDB]
                 /\ defaultRootDir' = [defaultRootDir EXCEPT ![p] = r.root]
            ELSE UNCHANGED << made, dirDB, defaultRootDir >>
         /\ tfmOut' = [tfmOut EXCEPT ![p] = Out("__init__", r.outcome, << >>)]
    /\ UNCHANGED << fileDB, protoVars, optVars >>

\* SetRootDir that starts a new directory collection for the new root
SetRootDir_ForgetsOld(p, rootDir) ==
    /\ made[p]
    /\ Called(p)
    /\ Len(fileDB[p]) + Len(dirDB[p]) < MaxReg
    /\ \E r \in SetRootDirResults(fs, << >>, rootDir) :
         /\ fs' = r.fs
         /\ dirDB' = [dirDB EXCEPT ![p] = r.dirDB]
         /\ IF r.outcome = "ok"
            THEN defaultRootDir' = [defaultRootDir EXCEPT ![p] = r.root]
            ELSE UNCHANGED defaultRootDir
         /\ tfmOut' = [tfmOut EXCEPT ![p] = Out("SetRootDir", r.outcome, << >>)]
    /\ UNCHANGED << made, fileDB, protoVars, optVars >>

\* lines 82-113
SetRootDir(p, rootDir) ==
    /\ made[p]
    /\ Called(p)
    /\ Len(fileDB[p]) + Len(dirDB[p]) < MaxReg
    /\ \E r \in SetRootDirResults(fs, dirDB[p], rootDir) :
         /\ fs' = r.fs
         /\ dirDB' = [dirDB EXCEPT ![p] = r.dirDB]
         /\ IF r.outcome = "ok"
            THEN defaultRootDir' = [defaultRootDir EXCEPT ![p] = r.root]
            ELSE UNCHANGED defaultRootDir
         /\ tfmOut' = [tfmOut EXCEPT ![p] = Out("SetRootDir", r.outcome, << >>)]
    /\ UNCHANGED << made, fileDB, protoVars, optVars >>

\* _isRegistered that finds nothing
_isRegistered_Never(p, tempFileName) == FALSE

\* lines 115-122
_isRegistered(p, tempFileName) ==
    LET name == abspath(expanduser(tempFileName))
    IN  name \in NamesOf(fileDB[p]) \/ name \in NamesOf(dirDB[p])

\* _RegisterTmpFile that puts every object into the file collection
_RegisterTmpFile_AsFile(p, tmpFile) ==
    /\ fileDB' = [fileDB EXCEPT ![p] = Append(@, tmpFile)]
    /\ dirDB' = dirDB

\* lines 124-130: the collections after _RegisterTmpFile(tmpFile)
_RegisterTmpFile(p, tmpFile) ==
    /\ dirDB' = IF tmpFile.isDir THEN [dirDB EXCEPT ![p] = Append(@, tmpFile)] ELSE dirDB
    /\ fileDB' = IF tmpFile.isDir THEN fileDB ELSE [fileDB EXCEPT ![p] = Append(@, tmpFile)]

\* lines 132-161
RegisterNewTmpFile(p, isDir, rootDirIn) ==
    /\ made[p]
    /\ Called(p)
    /\ Len(fileDB[p]) + Len(dirDB[p]) < MaxReg
    /\ IF rootDirIn = << >> /\ defaultRootDir[p] = << >>
       THEN \* line 138
            /\ tfmOut' = [tfmOut EXCEPT ![p] = Out("RegisterNewTmpFile", "IOError", << >>)]
            /\ UNCHANGED << fs, fileDB, dirDB >>
       ELSE LET rootDir == IF rootDirIn = << >> THEN defaultRootDir[p] ELSE rootDirIn
            IN  /\ Len(rootDir) < MaxDepth
                /\ \/ \* lines 143-152: mkdtemp / mkstemp raises
                      /\ tfmOut' = [tfmOut EXCEPT ![p] =
                                      Out("RegisterNewTmpFile", "OSError", << >>)]
                      /\ UNCHANGED << fs, fileDB, dirDB >>
                   \/ \E t \in Fresh(fs, rootDir) :
                        /\ IsDir(fs, rootDir)
                        /\ fs' = create(fs, t, IF isDir THEN "dir" ELSE "file")
                        /\ IF _isRegistered(p, abspath(expanduser(t)))
                           THEN \* lines 155-159
                                /\ tfmOut' = [tfmOut EXCEPT ![p] =
                                      Out("RegisterNewTmpFile", "IOError", << >>)]
                                /\ UNCHANGED << fileDB, dirDB >>
                           ELSE /\ _RegisterTmpFile(p,
                                      TempFile(abspath(expanduser(t)), TRUE, isDir))
                                /\ tfmOut' = [tfmOut EXCEPT ![p] =
                                      Out("RegisterNewTmpFile", "ok", << t >>)]
    /\ UNCHANGED << made, defaultRootDir, protoVars, optVars >>

\* the thisPath arguments tried: every existing path, a path that does not
\* exist, and relative and home-relative spellings
AdoptInputs ==
    { q \in DOMAIN fs : Head(q) \in TopNames }
    \cup { <<"new">> }
    \cup { <<".", TmpNames[i]>> : i \in DOMAIN TmpNames }
    \cup { <<"~", TmpNames[i]>> : i \in DOMAIN TmpNames }

\* AdoptErrMsg without the test of line 182
AdoptErrMsg_NoRegisteredTest(p, thisPath, isDir) ==
    LET m1 == IF ~isDir /\ ~isExist(thisPath) THEN "asfile" ELSE ""
        m2 == IF isDir /\ ~IsDir(fs, thisPath) THEN "asdir" ELSE m1
        m4 == IF ~isExist(thisPath) THEN "notexist" ELSE m2
    IN  m4

\* lines 172-192: the error message RegisterExistingTmpFile ends with
AdoptErrMsg(p, thisPath, isDir) ==
    LET m1 == IF ~isDir /\ ~isExist(thisPath) THEN "asfile" ELSE ""
        m2 == IF isDir /\ ~IsDir(fs, thisPath) THEN "asdir" ELSE m1
        m3 == IF _isRegistered(p, thisPath) THEN "registered" ELSE m2
        m4 == IF ~isExist(thisPath) THEN "notexist" ELSE m3
    IN  m4

\* lines 172-195: the body of RegisterExistingTmpFile; the log keeps the
\* normalised path of the call
Adopt(p, thisPathIn, own, isDir) ==
    /\ made[p]
    /\ Called(p)
    /\ Len(fileDB[p]) + Len(dirDB[p]) < MaxReg
    /\ LET thisPath == abspath(expanduser(thisPathIn))
       IN  IF AdoptErrMsg(p, thisPath, isDir) # ""
           THEN /\ tfmOut' = [tfmOut EXCEPT ![p] =
                                Out("RegisterExistingTmpFile", "IOError", << thisPath >>)]
                /\ UNCHANGED << fileDB, dirDB >>
           ELSE /\ _RegisterTmpFile(p, TempFile(thisPath, own, isDir))
                /\ tfmOut' = [tfmOut EXCEPT ![p] =
                                Out("RegisterExistingTmpFile", "ok", << thisPath >>)]
    /\ UNCHANGED << fs, made, defaultRootDir >>

\* lines 163-195, called by the user of the manager
RegisterExistingTmpFile(p, thisPathIn, own, isDir) ==
    /\ Adopt(p, thisPathIn, own, isDir)
    /\ UNCHANGED << protoVars, optVars >>

\* one object handled by CleanUp
Done(obj, what, times) == [name |-> obj.name, isDir |-> obj.isDir, what |-> what,
                           times |-> times]

RECURSIVE CleanFiles(_, _, _, _, _)
\* lines 202-206: os.remove raises OSError on a directory and on the paths
\* of failF, and nothing catches it
CleanFiles(fsys, db, realDelete, failF, log) ==
    IF db = << >>
    THEN [fs |-> fsys, fileDB |-> db, raised |-> FALSE, log |-> log]
    ELSE LET obj == db[Len(db)]
             rest == SubSeq(db, 1, Len(db) - 1)
         IN  IF realDelete /\ obj.own /\ Exists(fsys, obj.name)
             THEN IF fsys[obj.name] = "dir" \/ obj.name \in failF
                  THEN [fs |-> fsys, fileDB |-> rest, raised |-> TRUE,
                        log |-> Append(log, Done(obj, "raised", 0))]
                  ELSE CleanFiles(remove(fsys, obj.name), rest, realDelete, failF,
                                  Append(log, Done(obj, "removed", 0)))
             ELSE CleanFiles(fsys, rest, realDelete, failF,
                             Append(log, Done(obj, "skipped", 0)))

\* a loop that gives up after the first failing shutil.rmtree
Retry_GivesUpAtOnce(times, f) == IF f > 0 THEN maxTry ELSE 0

RECURSIVE Retry(_, _)
\* lines 222-231: the value of times after the loop when the first f calls
\* of shutil.rmtree raise
Retry(times, f) ==
    IF times < maxTry
    THEN IF times < f THEN Retry(times + 1, f) ELSE times
    ELSE times

RECURSIVE CleanDirs(_, _, _, _, _)
\* lines 209-234: failD gives, for each directory, how many calls of
\* shutil.rmtree raise before one succeeds
CleanDirs(fsys, db, realDelete, failD, log) ==
    IF db = << >>
    THEN [fs |-> fsys, dirDB |-> db, log |-> log]
    ELSE LET obj == db[Len(db)]
             rest == SubSeq(db, 1, Len(db) - 1)
         IN  IF realDelete /\ obj.own /\ Exists(fsys, obj.name)
             THEN LET times == Retry(0, IF fsys[obj.name] = "dir"
                                        THEN failD[obj.name] ELSE maxTry)
                  IN  IF times >= maxTry
                      THEN CleanDirs(fsys, rest, realDelete, failD,
                                     Append(log, Done(obj, "warned", times)))
                      ELSE CleanDirs(rmtree(fsys, obj.name), rest, realDelete, failD,
                                     Append(log, Done(obj, "removed", times)))
             ELSE CleanDirs(fsys, rest, realDelete, failD,
                            Append(log, Done(obj, "skipped", 0)))

\* numbers of failing shutil.rmtree calls tried for one directory
FailCounts == {0, maxTry - 1, maxTry}

\* CleanUp that deletes whatever realDelete says
CleanUp_AlwaysDeletes(p, realDelete) ==
    /\ made[p]
    /\ Called(p)
    /\ \E failF \in SUBSET OwnedOf(fileDB[p]) :
       \E failD \in [OwnedOf(dirDB[p]) -> FailCounts] :
         LET f == CleanFiles(fs, fileDB[p], TRUE, failF, << >>)
             d == CleanDirs(f.fs, dirDB[p], TRUE, failD, f.log)
         IN  IF f.raised
             THEN /\ fs' = f.fs
                  /\ fileDB' = [fileDB EXCEPT ![p] = f.fileDB]
                  /\ tfmOut' = [tfmOut EXCEPT ![p] = Out("CleanUp", "OSError", f.log)]
                  /\ UNCHANGED << dirDB, defaultRootDir >>
             ELSE /\ fs' = d.fs
                  /\ fileDB' = [fileDB EXCEPT ![p] = f.fileDB]
                  /\ dirDB' = [dirDB EXCEPT ![p] = d.dirDB]
                  /\ defaultRootDir' = [defaultRootDir EXCEPT ![p] = << >>]
                  /\ tfmOut' = [tfmOut EXCEPT ![p] = Out("CleanUp", "ok", d.log)]
    /\ UNCHANGED << made, protoVars, optVars >>

\* CleanUp that returns at once when both collections are drained already,
\* and otherwise keeps the directory collection
CleanUp_KeepsDirs(p, realDelete) ==
    /\ made[p]
    /\ Called(p)
    /\ \E failF \in SUBSET OwnedOf(fileDB[p]) :
       \E failD \in [OwnedOf(dirDB[p]) -> FailCounts] :
         LET f == CleanFiles(fs, fileDB[p], realDelete, failF, << >>)
             d == CleanDirs(f.fs, dirDB[p], realDelete, failD, f.log)
         IN  IF f.raised
             THEN /\ fs' = f.fs
                  /\ fileDB' = [fileDB EXCEPT ![p] = f.fileDB]
                  /\ tfmOut' = [tfmOut EXCEPT ![p] = Out("CleanUp", "OSError", f.log)]
                  /\ UNCHANGED << dirDB, defaultRootDir >>
             ELSE /\ fs' = d.fs
                  /\ fileDB' = [fileDB EXCEPT ![p] = f.fileDB]
                  /\ UNCHANGED dirDB
                  /\ defaultRootDir' = [defaultRootDir EXCEPT ![p] = << >>]
                  /\ tfmOut' = [tfmOut EXCEPT ![p] = Out("CleanUp", "ok", d.log)]
    /\ UNCHANGED << made, protoVars, optVars >>

\* CleanUp without line 236
CleanUp_KeepsRoot(p, realDelete) ==
    /\ made[p]
    /\ Called(p)
    /\ \E failF \in SUBSET OwnedOf(fileDB[p]) :
       \E failD \in [OwnedOf(dirDB[p]) -> FailCounts] :
         LET f == CleanFiles(fs, fileDB[p], realDelete, failF, << >>)
             d == CleanDirs(f.fs, dirDB[p], realDelete, failD, f.log)
         IN  IF f.raised
             THEN /\ fs' = f.fs
                  /\ fileDB' = [fileDB EXCEPT ![p] = f.fileDB]
                  /\ tfmOut' = [tfmOut EXCEPT ![p] = Out("CleanUp", "OSError", f.log)]
                  /\ UNCHANGED dirDB
             ELSE /\ fs' = d.fs
                  /\ fileDB' = [fileDB EXCEPT ![p] = f.fileDB]
                  /\ dirDB' = [dirDB EXCEPT ![p] = d.dirDB]
                  /\ tfmOut' = [tfmOut EXCEPT ![p] = Out("CleanUp", "ok", d.log)]
    /\ UNCHANGED << made, defaultRootDir, protoVars, optVars >>

\* CleanUp that handles the directories before the files
CleanUp_DirsFirst(p, realDelete) ==
    /\ made[p]
    /\ Called(p)
    /\ \E failF \in SUBSET OwnedOf(fileDB[p]) :
       \E failD \in [OwnedOf(dirDB[p]) -> FailCounts] :
         LET d == CleanDirs(fs, dirDB[p], realDelete, failD, << >>)
             f == CleanFiles(d.fs, fileDB[p], realDelete, failF, d.log)
         IN  /\ fs' = f.fs
             /\ fileDB' = [fileDB EXCEPT ![p] = f.fileDB]
             /\ dirDB' = [dirDB EXCEPT ![p] = d.dirDB]
             /\ IF f.raised
                THEN /\ tfmOut' = [tfmOut EXCEPT ![p] = Out("CleanUp", "OSError", f.log)]
                     /\ UNCHANGED defaultRootDir
                ELSE /\ defaultRootDir' = [defaultRootDir EXCEPT ![p] = << >>]
                     /\ tfmOut' = [tfmOut EXCEPT ![p] = Out("CleanUp", "ok", f.log)]
    /\ UNCHANGED << made, protoVars, optVars >>

\* lines 197-236
CleanUp(p, realDelete) ==
    /\ made[p]
    /\ Called(p)
    /\ \E failF \in SUBSET OwnedOf(fileDB[p]) :
       \E failD \in [OwnedOf(dirDB[p]) -> FailCounts] :
         LET f == CleanFiles(fs, fileDB[p], realDelete, failF, << >>)
             d == CleanDirs(f.fs, dirDB[p], realDelete, failD, f.log)
         IN  IF f.raised
             THEN /\ fs' = f.fs
                  /\ fileDB' = [fileDB EXCEPT ![p] = f.fileDB]
                  /\ tfmOut' = [tfmOut EXCEPT ![p] = Out("CleanUp", "OSError", f.log)]
                  /\ UNCHANGED << dirDB, defaultRootDir >>
             ELSE /\ fs' = d.fs
                  /\ fileDB' = [fileDB EXCEPT ![p] = f.fileDB]
                  /\ dirDB' = [dirDB EXCEPT ![p] = d.dirDB]
                  /\ defaultRootDir' = [defaultRootDir EXCEPT ![p] = << >>]
                  /\ tfmOut' = [tfmOut EXCEPT ![p] = Out("CleanUp", "ok", d.log)]
    /\ UNCHANGED << made, protoVars, optVars >>

TmpNext ==
    \E p \in Managers :
        \/ \E rootDir \in RootInputs : TempFileManager(p, rootDir)
        \/ \E rootDir \in RootInputs : SetRootDir(p, rootDir)
        \/ \E isDir \in BOOLEAN, rootDir \in {<< >>, <<"scratch">>} \cup NamesOf(dirDB[p]) :
              RegisterNewTmpFile(p, isDir, rootDir)
        \/ \E thisPath \in AdoptInputs, own \in BOOLEAN, isDir \in BOOLEAN :
              RegisterExistingTmpFile(p, thisPath, own, isDir)
        \/ \E realDelete \in BOOLEAN : CleanUp(p, realDelete)

\* the TempFileManager of every process, on the shared filesystem
TmpSpec == Init /\ [][TmpNext]_vars

\* --------------------------------------- a pbalign run: GMAPService._preProcess
\* the pbalign runs that share the filesystem
Runs == {1, 2}

\* the rootDir each run may construct its TempFileManager with
PreRoots == { << >>, <<"scratch">>, <<"new">> }

\* the run has not called CleanUp, which it does when it ends
Running(p) == tfmOut[p].op # "CleanUp"

\* the call in progress was made with isWithinRepository = True
isWithinRepository(p) == dbName[p] = "gmap_db"

\* gmap.py lines 285-286: _gmapCreateDB(referenceFile, isWithinRepository,
\* tempFileManager.defaultRootDir).  With defaultRootDir "" the path
\* dbRoot/dbName is relative, that is, it lies in the current directory.
L285(p, withinRepository) ==
    /\ pc[p] = "idle"
    /\ made[p]
    /\ Call(p, withinRepository,
            IF defaultRootDir[p] = << >> THEN getcwd ELSE defaultRootDir[p])

\* L291 that registers the artifact of a repository as well
L291_RegistersShared(p) ==
    /\ pc[p] = "returned"
    /\ Adopt(p, dbPath(p), TRUE, TRUE)
    /\ pc' = [pc EXCEPT ![p] = IF tfmOut'[p].outcome = "ok" THEN "done" ELSE "raised"]
    /\ UNCHANGED << dbRoot, dbName, errCode, invoked, hist, startBuilt,
                    lockCreator, lastBuildRc, optVars >>

\* gmap.py lines 288-292: outside a repository the database directory is
\* registered as an owned directory; the IOError of RegisterExistingTmpFile
\* leaves _preProcess
L291(p) ==
    /\ pc[p] = "returned"
    /\ IF ~isWithinRepository(p)
       THEN /\ Adopt(p, dbPath(p), TRUE, TRUE)
            /\ pc' = [pc EXCEPT ![p] =
                        IF tfmOut'[p].outcome = "ok" THEN "done" ELSE "raised"]
       ELSE /\ pc' = [pc EXCEPT ![p] = "done"]
            /\ UNCHANGED << fs, tfmVars >>
    /\ UNCHANGED << dbRoot, dbName, errCode, invoked, hist, startBuilt,
                    lockCreator, lastBuildRc, optVars >>

\* lines 284-292
_preProcess(p) ==
    \/ \E withinRepository \in BOOLEAN : L285(p, withinRepository)
    \/ Step(p)
    \/ L291(p)

\* A run constructs its manager and preprocesses; _pls2fasta (gmap.py line
\* 295, fastabasedalign.py line 63) registers a new FASTA file; the run ends,
\* after _preProcess returned or raised, with CleanUp.
Run(p) ==
    \/ \E rootDir \in PreRoots : TempFileManager(p, rootDir)
    \/ _preProcess(p)
    \/ pc[p] = "done" /\ Running(p) /\ RegisterNewTmpFile(p, FALSE, << >>)
    \/ pc[p] \in {"done", "raised"} /\ Running(p)
          /\ \E realDelete \in BOOLEAN : CleanUp(p, realDelete)

\* the runs of Managers in full, next to the calls of _gmapCreateDB that
\* the other runs make on the repository
PreNext ==
    \/ \E p \in Managers : Run(p)
    \/ \E p \in Runs \ Managers : LiveProc(p)

PreSpec == Init /\ [][PreNext]_vars

\* the managers of the runs that share the filesystem: construction, new
\* temporary files and directories, CleanUp
ShareNext ==
    \E p \in Runs :
        \/ \E rootDir \in PreRoots : TempFileManager(p, rootDir)
        \/ \E isDir \in BOOLEAN : RegisterNewTmpFile(p, isDir, << >>)
        \/ \E realDelete \in BOOLEAN : CleanUp(p, realDelete)

ShareSpec == Init /\ [][ShareNext]_vars

\* ------------------------------------- _resolveAlgorithmOptions, by step
\* An element of algorithmOptions.split(' ') is modelled by its parts
\* between "=" signs, so that items[i].split("=")[0] is the first part.

\* gmap.py lines 91-94
unsupportedOptions == {"-1", "--selfalign", "-2", "--pairalign", "--cmdline",
                       "--cmetdir", "--atoidir", "-v", "--use-snps", "-V",
                       "--snpsdir"}

\* gmap.py line 96
ignoredBinaryOptions == {"-D", "-d"}

\* gmap.py lines 102-106
ignoredUnitaryOptions == {"-S", "-A", "-3", "-4", "-Z", "-E", "-P", "-Q", "-5",
                          "--no-sam-headers", "-f", "--sam-use-0M", "--dir",
                          "--db", "--kmer", "--nthreads", "--npaths", "--help",
                          "--version"}

\* the pbalign options the resolution compares with
options == [minAnchorSize |-> 12, maxHits |-> 10]

\* the strings int() accepts, among those tried, and their values
Numerals == ("12" :> 12) @@ ("10" :> 10)

\* the elements tried: an unsupported, an ignored unitary and an ignored
\* binary option, the three options with a value, two numbers, an option
\* that gmap.py does not name, the empty string (two blanks in a row), and
\* an option written with "="
Tokens == { <<"-1">>, <<"-S">>, <<"-D">>, <<"-k">>, <<"-t">>, <<"-n">>,
            <<"12">>, <<"10">>, <<"--foo">>, <<"">>, <<"-k", "12">> }

\* most elements of algorithmOptions.split(' ')
MaxItems == 3

\* the values of options.algorithmOptions tried, after split(' '); the
\* empty sequence, which split never returns, stands for None
AlgorithmOptions ==
    { << >> } \cup UNION { [1..n -> Tokens] : n \in 1..MaxItems }

\* del items[i:i+n], Python slices stop at the end of the list
Del(list, i, n) ==
    SubSeq(list, 1, i) \o SubSeq(list, i + n + 1, Len(list))

\* int(items[i+1]) raises: IndexError past the end, ValueError on a string
\* that is not a number
IntRaises(list, i) ==
    \/ i + 2 > Len(list)
    \/ Len(list[i + 2]) # 1
    \/ list[i + 2][1] \notin DOMAIN Numerals

\* int(items[i+1])
IntOf(list, i) == Numerals[list[i + 2][1]]

\* lines 87-109: the call, up to the loop
_resolveAlgorithmOptions(algorithmOptions) ==
    /\ optPc = "idle"
    /\ IF algorithmOptions = << >>
       THEN \* line 88
            /\ optPc' = "returned"
            /\ UNCHANGED << items, idx >>
       ELSE /\ items' = algorithmOptions
            /\ idx' = 0
            /\ optPc' = "L111"
    /\ UNCHANGED << nproc, fs, protoVars, tfmVars >>

\* line 111: while i < len(items); lines 162-163 after the loop
L111 ==
    /\ optPc = "L111"
    /\ optPc' = IF idx < Len(items) THEN "L112" ELSE "returned"
    /\ UNCHANGED << items, idx, nproc, fs, protoVars, tfmVars >>

\* lines 112-153: one pass through the loop body; every exception is turned
\* into ValueError at lines 155-159
L112 ==
    /\ optPc = "L112"
    /\ LET item == items[idx + 1][1]
           Raised == /\ optPc' = "raised"
                     /\ UNCHANGED << items, nproc >>
           Deleted(n) == /\ items' = Del(items, idx, n)
                         /\ optPc' = "L111"
                         /\ UNCHANGED nproc
       IN  IF item \in unsupportedOptions
           THEN Raised
           ELSE IF item \in ignoredUnitaryOptions
           THEN Deleted(1)
           ELSE IF item \in ignoredBinaryOptions
           THEN Deleted(2)
           ELSE IF item = "-k"
           THEN IF IntRaises(items, idx)
                THEN Raised
                ELSE IF options.minAnchorSize = IntOf(items, idx)
                     THEN Deleted(2)
                     ELSE Raised
           ELSE IF item = "-t"
           THEN IF IntRaises(items, idx)
                THEN Raised
                ELSE /\ nproc' = IntOf(items, idx)
                     /\ items' = Del(items, idx, 2)
                     /\ optPc' = "L111"
           ELSE IF item = "-n"
           THEN IF IntRaises(items, idx)
                THEN Raised
                ELSE IF options.maxHits = IntOf(items, idx)
                     THEN Deleted(2)
                     ELSE Raised
           ELSE \* no branch is taken: nothing is deleted
                /\ optPc' = "L111"
                /\ UNCHANGED << items, nproc >>
    /\ UNCHANGED << idx, fs, protoVars, tfmVars >>

OptNext ==
    \/ \E algorithmOptions \in AlgorithmOptions :
           _resolveAlgorithmOptions(algorithmOptions)
    \/ L111
    \/ L112

\* one call of _resolveAlgorithmOptions that keeps running
OptSpec == Init /\ [][OptNext]_vars /\ WF_vars(OptNext)

\* ---------------------------------------------------------------- claims
\* the outcome of the last finished call of p
lastOutcome(p) == hist[p][Len(hist[p])]

\* every process is in, or has finished, its first call at most
FirstCalls ==
    \A p \in Procs :
        \/ Len(hist[p]) = 0
        \/ Len(hist[p]) = 1 /\ pc[p] \in {"returned", "raised"}

\* no gmap_build has exited non-zero so far
NoBuildFailure ==
    \A p \in Procs :
        /\ \A i \in 1..Len(hist[p]) : hist[p][i] # "buildfail"
        /\ pc[p] = "L255" => errCode[p] = 0

\* no touch and no gmap_build has exited non-zero so far
NoFailure ==
    /\ NoBuildFailure
    /\ \A p \in Procs :
        /\ \A i \in 1..Len(hist[p]) : hist[p][i] # "touchfail"
        /\ pc[p] # "L246"

\* the artifact is fully written
Complete == building = {} /\ lastBuildRc = 0 /\ isExist(RepoDbPath)

\* C1: processes racing from the state where neither the artifact nor the
\* marker exists: at most one of them invokes gmap_build.
C1_BuildAtMostOnce ==
    (FirstCalls /\ NoFailure) =>
        Cardinality({ p \in Procs : invoked[p] > 0 }) <= 1

\* C2: at the moment a process returns (dbRoot, dbName), no gmap_build is
\* running on the artifact and the gmap_build that exited last succeeded.
C2_ReturnedArtifactComplete ==
    [][ \A p \in Procs :
          (pc[p] # "returned" /\ pc'[p] = "returned") => Complete' ]_vars

\* C3: at each step that decides to return without building (line 224 and
\* line 237), the marker is absent and the target is present.
C3_ReadinessNeedsMarkerAbsent ==
    [][ \A p \in Procs :
          (pc[p] \in {"L224lock", "L237"} /\ pc'[p] = "returned") =>
              (~isExist(dbLock(p)) /\ isExist(dbPath(p))) ]_vars

\* C4: while some gmap_build is running the marker exists (so the marker is
\* never removed before every builder has exited).
C4_MarkerCoversBuild ==
    building # {} => isExist(lockOf(RepoDbPath))

C6_BuildFailureClearsMarker ==
    [][ \A p \in Procs :
          (pc[p] = "L255" /\ errCode[p] # 0 /\ pc'[p] # pc[p]) =>
              /\ pc'[p] = "raised"
              /\ ~(isExist(dbLock(p)))'
              /\ lockCreator' # p
              /\ lastOutcome(p)' = "buildfail" ]_vars

C6_Witness ==
    \E p \in Procs :
        /\ pc[p] = "raised"
        /\ lastOutcome(p) = "buildfail"
        /\ ~isExist(dbLock(p))

\* C7: when a gmap_build has exited non-zero while the marker exists, every
\* process polling in the wait loop eventually leaves the loop.
C7_WaitersNotStranded ==
    \A q \in Procs :
        ( /\ pc[q] = "L231"
          /\ isExist(lockOf(RepoDbPath))
          /\ \E p \in Procs : pc[p] = "L255" /\ errCode[p] # 0 )
        ~> (pc[q] # "L231")

C7_Witness ==
    \E p, q \in Procs :
        /\ pc[q] = "L231"
        /\ isExist(lockOf(RepoDbPath))
        /\ lockCreator = p
        /\ pc[p] = "L255" /\ errCode[p] # 0

\* C8: a call that began with the target present and the marker absent
\* returns through line 228 without reaching the wait loop, the touch or the
\* build.
C8_FastPathNoOp ==
    \A p \in Procs :
        startBuilt[p] =>
            \/ pc[p] \in {"L224", "L224lock"}
            \/ pc[p] = "returned" /\ lastOutcome(p) = "fast"

\* C9: two finished calls of one process, the first of which built
\* successfully: gmap_build was invoked once and the second call returned
\* through line 228.
C9_Idempotence ==
    \A p \in Procs :
        (Len(hist[p]) = 2 /\ hist[p][1] = "built") =>
            (invoked[p] = 1 /\ hist[p][2] = "fast")

\* C10: every CleanUp call returns normally, whatever is registered, whatever
\* the filesystem holds and whichever deletions fail.
C10_CleanUpNeverRaises ==
    \A p \in Managers : tfmOut[p].op = "CleanUp" => tfmOut[p].outcome = "ok"

\* ------------------------------------------- claims on the TempFileManager
\* the names of the entries of db with own = False
NotOwnedOf(db) == { db[i].name : i \in { j \in DOMAIN db : ~db[j].own } }

\* fileDB and dirDB of p together
Registry(p) == fileDB[p] \o dirDB[p]

\* no os.remove and no shutil.rmtree of the CleanUp call with this log raised
NoDeletionFailure(log) ==
    \A i \in DOMAIN log : log[i].what \notin {"raised", "warned"} /\ log[i].times = 0

\* C11: after every CleanUp call, whatever realDelete and whatever the
\* deletions did, fileDB and dirDB are both empty.
C11_RegistryEmptyAfterCleanUp ==
    \A p \in Managers :
        tfmOut[p].op = "CleanUp" => (fileDB[p] = << >> /\ dirDB[p] = << >>)

\* C12: a CleanUp(True) call in which no deletion fails leaves no path on
\* the filesystem that was registered with own = True.
C12_CleanUpRemovesOwned ==
    [][ \A p \in Managers :
          LET \* CleanUp(True) in which no os.remove and no shutil.rmtree raises
              f == CleanFiles(fs, fileDB[p], TRUE, {}, << >>)
              d == CleanDirs(f.fs, dirDB[p], TRUE,
                             [n \in OwnedOf(dirDB[p]) |-> 0], f.log)
          IN  ( /\ tfmOut'[p].op = "CleanUp" /\ nCalls'[p] = nCalls[p] + 1
                /\ ~f.raised
                /\ fs' = d.fs
                /\ tfmOut'[p] = Out("CleanUp", "ok", d.log) ) =>
                  \A n \in OwnedOf(fileDB[p]) \cup OwnedOf(dirDB[p]) :
                      ~Exists(fs', n) ]_vars

C12_Witness ==
    \E p \in Managers :
        /\ tfmOut[p].op = "CleanUp" /\ tfmOut[p].outcome = "ok"
        /\ NoDeletionFailure(tfmOut[p].log)
        /\ \E i, j \in DOMAIN tfmOut[p].log :
             /\ tfmOut[p].log[i].what = "removed" /\ ~tfmOut[p].log[i].isDir
             /\ tfmOut[p].log[j].what = "removed" /\ tfmOut[p].log[j].isDir
             /\ ~isExist(tfmOut[p].log[i].name)
             /\ ~isExist(tfmOut[p].log[j].name)

\* C13: every path registered with own = False that exists before a
\* CleanUp(True) call exists after it.
C13_CleanUpKeepsNotOwned ==
    [][ \A p \in Managers :
          CleanUp(p, TRUE) =>
              \A n \in NotOwnedOf(fileDB[p]) \cup NotOwnedOf(dirDB[p]) :
                  Exists(fs, n) => Exists(fs', n) ]_vars

\* C14: no path occurs twice in fileDB and dirDB taken together.
C14_RegistryIsSet ==
    \A p \in Managers :
        \A i, j \in DOMAIN Registry(p) :
            i # j => Registry(p)[i].name # Registry(p)[j].name

C14_Witness ==
    \E p \in Managers :
        /\ Len(Registry(p)) >= 2
        /\ tfmOut[p].op = "RegisterExistingTmpFile"
        /\ tfmOut[p].outcome = "IOError"
        /\ tfmOut[p].log[1] \in NamesOf(Registry(p))

\* C15: RegisterExistingTmpFile of a path that is in fileDB or dirDB raises
\* IOError and changes neither collection.
C15_ReRegistrationRejected ==
    [][ \A p \in Managers : \A thisPath \in AdoptInputs : \A own, isDir \in BOOLEAN :
          ( /\ tfmOut'[p].op = "RegisterExistingTmpFile"
            /\ _isRegistered(p, thisPath)
            /\ RegisterExistingTmpFile(p, thisPath, own, isDir) ) =>
              /\ tfmOut'[p].outcome = "IOError"
              /\ fileDB' = fileDB
              /\ dirDB' = dirDB ]_vars

C15_Witness ==
    \E p \in Managers :
        /\ tfmOut[p].op = "RegisterExistingTmpFile"
        /\ tfmOut[p].outcome = "IOError"
        /\ tfmOut[p].log[1] \in NamesOf(fileDB[p])
        /\ isExist(tfmOut[p].log[1])

\* C16: RegisterExistingTmpFile raises IOError and registers nothing when
\* the path does not exist or its kind differs from isDir, and registers the
\* path when it exists with the kind given (and is not registered yet).
C16_AdoptValidatesKind ==
    [][ \A p \in Managers : \A thisPath \in AdoptInputs : \A own, isDir \in BOOLEAN :
          RegisterExistingTmpFile(p, thisPath, own, isDir) =>
              LET q == abspath(expanduser(thisPath))
              IN  IF Exists(fs, q) /\ (IsDir(fs, q) <=> isDir) /\ ~_isRegistered(p, q)
                  THEN /\ tfmOut'[p].outcome = "ok"
                       /\ TempFile(q, own, isDir) \in
                              { Registry(p)'[i] : i \in DOMAIN Registry(p)' }
                  ELSE /\ tfmOut'[p].outcome = "IOError"
                       /\ fileDB' = fileDB
                       /\ dirDB' = dirDB ]_vars

\* C17: outside a repository, the step after a successful _gmapCreateDB
\* registers dbRoot/dbName in dirDB with own = True, and a CleanUp(True) call
\* with that entry registered removes the directory.
C17_UnsharedArtifactReclaimed ==
    [][ \A p \in Managers :
          /\ ( pc[p] = "returned" /\ ~isWithinRepository(p) /\ pc'[p] # "returned" ) =>
                 TempFile(dbPath(p), TRUE, TRUE) \in
                     { dirDB'[p][i] : i \in DOMAIN dirDB'[p] }
          /\ ( CleanUp(p, TRUE) /\ ~isWithinRepository(p)
               /\ dbPath(p) \in OwnedOf(dirDB[p]) ) =>
                 ~Exists(fs', dbPath(p)) ]_vars

\* C18: the database of a repository is registered by no run as owned, and
\* no CleanUp call deletes it or its marker.
C18_SharedArtifactNeverReclaimed ==
    [][ \A p \in Managers :
          /\ RepoDbPath \notin OwnedOf(fileDB'[p]) \cup OwnedOf(dirDB'[p])
          /\ \A realDelete \in BOOLEAN :
               ( tfmOut'[p].op = "CleanUp" /\ CleanUp(p, realDelete) ) =>
                   \A q \in {RepoDbPath, lockOf(RepoDbPath)} :
                       Exists(fs, q) => Exists(fs', q) ]_vars

C18_Witness ==
    \E p \in Managers :
        /\ pc[p] = "done" /\ isWithinRepository(p)
        /\ isExist(RepoDbPath)
        /\ tfmOut[p].op = "CleanUp" /\ tfmOut[p].outcome = "ok"
        /\ \E i \in DOMAIN tfmOut[p].log : tfmOut[p].log[i].what = "removed"

\* C19: a CleanUp call of one run deletes no path that another run has
\* registered as owned and no path under another run's working root.
C19_CleanUpIsLocal ==
    [][ \A p, q \in Runs : \A realDelete \in BOOLEAN :
          ( p # q /\ CleanUp(p, realDelete) ) =>
              \A n \in DOMAIN fs :
                  ( \/ n \in OwnedOf(Registry(q))
                    \/ defaultRootDir[q] # << >> /\ IsUnder(n, defaultRootDir[q]) ) =>
                      Exists(fs', n) ]_vars

\* C20: construction and SetRootDir return normally and leave
\* defaultRootDir set to an existing directory registered with own = True.
C20_RootAlwaysUsable ==
    \A p \in Managers :
        tfmOut[p].op \in {"__init__", "SetRootDir"} =>
            /\ tfmOut[p].outcome = "ok"
            /\ defaultRootDir[p] # << >>
            /\ IsDir(fs, defaultRootDir[p])
            /\ defaultRootDir[p] \in OwnedOf(dirDB[p])

\* ------------------------------------------------ claims C26 to C29
\* no gmap_build has exited with 0 so far
NoBuildSucceeded ==
    \A q \in Pids :
        /\ \A i \in 1..Len(hist[q]) : hist[q][i] # "built"
        /\ ~(pc[q] = "L255" /\ errCode[q] = 0)

\* C26: from a state in which the database is complete and the marker is
\* absent, no step creates the marker or invokes gmap_build.
C26_BuiltIsAbsorbing ==
    [][ (Complete /\ ~isExist(lockOf(RepoDbPath))) =>
            /\ ~isExist(lockOf(RepoDbPath))'
            /\ invoked' = invoked ]_vars

\* C27: of NRacers >= 3 processes racing on the absent database, never all
\* invoke gmap_build.
C27_DuplicateBuildsBounded ==
    Cardinality({ p \in Racers : invoked[p] > 0 }) < Cardinality(Racers)

\* C28: a call that follows a call of the same process which ended with a
\* failed gmap_build does not return the database without building while no
\* gmap_build has succeeded.
C28_RetryAfterFailureRebuilds ==
    \A p \in Procs :
        ( /\ Len(hist[p]) >= 2
          /\ hist[p][1] = "buildfail"
          /\ NoBuildSucceeded ) =>
            hist[p][2] \notin {"fast", "found"}

\* C29: a step of a process in the wait loop that observes the marker stays
\* in the loop and changes nothing; the process leaves the loop only by a
\* step that observes the marker absent; and while the marker is never
\* removed the process stays in the loop for ever.
C29_WaitLoopEndsOnAbsence ==
    /\ [][ \A p \in Procs :
             pc[p] = "L231" =>
                 /\ (pc'[p] # "L231" => ~isExist(dbLock(p)) /\ pc'[p] = "L237")
                 /\ (L231(p) /\ isExist(dbLock(p))) =>
                        /\ pc' = pc /\ fs' = fs /\ invoked' = invoked
                        /\ fileDB' = fileDB /\ dirDB' = dirDB ]_vars
    /\ \A p \in Procs :
         []( (pc[p] = "L231" /\ [](isExist(lockOf(RepoDbPath)))) => [](pc[p] = "L231") )

C29_Witness ==
    \E p, q \in Procs :
        /\ pc[p] = "L231"
        /\ isExist(dbLock(p))
        /\ lockCreator = q
        /\ pc[q] = "building"

\* ------------------------------------------------ claims C21 to C25, C30
\* some owned entry of the collections of p is q or a directory above q
OwnedAbove(p, q) ==
    \E n \in OwnedOf(fileDB[p]) \cup OwnedOf(dirDB[p]) : IsUnder(q, n)

\* the step is the construction of the manager of p, or SetRootDir, with
\* argument rootDir
Allocates(p, rootDir) ==
    /\ tfmOut'[p].op \in {"__init__", "SetRootDir"}
    /\ TempFileManager(p, rootDir) \/ SetRootDir(p, rootDir)

\* C21: root allocation on a preferred root that exists as a directory makes
\* a directory that did not exist, directly under the preferred root, the
\* working root, and registers that directory, owned, and nothing else; when
\* the allocation raises nothing is registered.  CleanUp leaves every
\* directory in place that is neither registered as owned nor under an owned
\* registered directory, the preferred root among them.
C21_ExistingRootNotUsedDirectly ==
    [][ \A p \in Managers :
          /\ \A rootDir \in RootInputs \ { << >> } :
               LET r == abspath(expanduser(rootDir))
                   t == defaultRootDir'[p]
               IN  (IsDir(fs, r) /\ Allocates(p, rootDir)) =>
                       IF tfmOut'[p].outcome = "ok"
                       THEN /\ t # r
                            /\ t # << >> /\ dirname(t) = r
                            /\ ~Exists(fs, t)
                            /\ IsDir(fs', t)
                            /\ IsDir(fs', r)
                            /\ dirDB'[p] = Append(dirDB[p], TempFile(t, TRUE, TRUE))
                            /\ r \in NamesOf(dirDB'[p]) => r \in NamesOf(dirDB[p])
                            /\ fileDB'[p] = fileDB[p]
                       ELSE /\ fs' = fs
                            /\ dirDB'[p] = dirDB[p]
                            /\ fileDB'[p] = fileDB[p]
          /\ (tfmOut'[p].op = "CleanUp" /\ nCalls'[p] # nCalls[p]) =>
               \A q \in DOMAIN fs :
                   (IsDir(fs, q) /\ ~OwnedAbove(p, q)) => IsDir(fs', q) ]_vars

C21_Witness ==
    \E p \in Managers :
        /\ tfmOut[p].op = "__init__"
        /\ tfmOut[p].outcome = "ok"
        /\ defaultRootDir[p] # << >>
        /\ dirname(defaultRootDir[p]) = <<"scratch">>
        /\ dirDB[p] = << TempFile(defaultRootDir[p], TRUE, TRUE) >>
        /\ IsDir(fs, defaultRootDir[p])

\* C22: RegisterNewTmpFile without a root, called while no working root is
\* established, does not end with the IOError of a missing root and leaves
\* a working root established.
C22_LazyRootResolution ==
    [][ \A p \in Managers : \A isDir \in BOOLEAN :
          ( /\ tfmOut'[p].op = "RegisterNewTmpFile"
            /\ defaultRootDir[p] = << >>
            /\ RegisterNewTmpFile(p, isDir, << >>) ) =>
              /\ tfmOut'[p].outcome # "IOError"
              /\ defaultRootDir'[p] # << >> ]_vars

\* C24: after a CleanUp in which the deletion of a file failed, both
\* collections are empty and the working root is cleared.
C24_FileFailureDoesNotStopCleanUp ==
    \A p \in Managers :
        ( /\ tfmOut[p].op = "CleanUp"
          /\ \E i \in DOMAIN tfmOut[p].log : tfmOut[p].log[i].what = "raised" ) =>
            /\ fileDB[p] = << >>
            /\ dirDB[p] = << >>
            /\ defaultRootDir[p] = << >>

\* C23: a CleanUp that reaches the directories handles every registered
\* directory, one after the other.  When it deletes or gives up at least one
\* directory, exactly the owned directories that exist when their turn comes
\* are not skipped, and for each of them: if shutil.rmtree fails c < maxTry
\* times it succeeds at attempt c + 1, no warning is given and the directory
\* is gone; if it fails maxTry times there are exactly maxTry attempts and
\* one warning, and the directory is still there (unless an owned directory
\* above it is deleted later in the same call); either way the directories
\* after it are handled.
C23_DirectoryDeletionRetry ==
    [][ \A p \in Managers :
          ( /\ tfmOut'[p].op = "CleanUp"
            /\ tfmOut'[p].outcome = "ok"
            /\ nCalls'[p] # nCalls[p] ) =>
              LET log == tfmOut'[p].log
                  nf == Len(fileDB[p])
                  nd == Len(dirDB[p])
              IN  /\ Len(log) = nf + nd
                  /\ dirDB'[p] = << >>
                  /\ \A k \in 1..nd : log[nf + k].name = dirDB[p][nd - k + 1].name
                  /\ (\E k \in 1..nd : log[nf + k].what # "skipped") =>
                       \A f \in { CleanFiles(fs, fileDB[p], TRUE, {}, << >>) } :
                         LET \* the directories among the first k that were deleted
                             Removed(k) ==
                                 { log[nf + j].name :
                                     j \in { i \in 1..k : log[nf + i].what = "removed" } }
                             \* the filesystem when the first k directories are handled
                             After(k) ==
                                 IF Removed(k) = {}
                                 THEN f.fs
                                 ELSE [q \in { x \in DOMAIN f.fs :
                                                 \A r \in Removed(k) : ~IsUnder(x, r) }
                                         |-> f.fs[q]]
                             \* the numbers c of failing calls of rmtree for which
                             \* the k-th directory, handled on filesystem before, gets
                             \* the log entry of the step and leaves filesystem after
                             Counts(k, before, after) ==
                                 { c \in FailCounts :
                                     \A one \in { CleanDirs(before,
                                                            << dirDB[p][nd - k + 1] >>, TRUE,
                                                            [n \in {dirDB[p][nd - k + 1].name}
                                                               |-> c],
                                                            << >>) } :
                                         one.log = << log[nf + k] >> /\ one.fs = after }
                         IN  /\ ~f.raised
                             /\ SubSeq(log, 1, nf) = f.log
                             /\ fs' = After(nd)
                             /\ \A k \in 1..nd :
                                  LET e == log[nf + k]
                                      obj == dirDB[p][nd - k + 1]
                                  IN  \A before \in { After(k - 1) } :
                                      IF e.what = "skipped"
                                      THEN ~(obj.own /\ Exists(before, obj.name))
                                      ELSE /\ obj.own
                                           /\ Exists(before, obj.name)
                                           /\ \A cs \in { Counts(k, before, After(k)) } :
                                                /\ cs # {}
                                                /\ \A c \in cs :
                                                     IF c < maxTry
                                                     THEN /\ e.what = "removed"
                                                          /\ e.times = c
                                                          /\ ~Exists(fs', e.name)
                                                     ELSE /\ e.what = "warned"
                                                          /\ e.times = maxTry
                                                          /\ \/ IsDir(fs', e.name)
                                                             \/ \E j \in (k + 1)..nd :
                                                                  /\ log[nf + j].what = "removed"
                                                                  /\ IsUnder(e.name, log[nf + j].name) ]_vars

C23_Witness ==
    \E p \in Managers :
        /\ tfmOut[p].op = "CleanUp"
        /\ tfmOut[p].outcome = "ok"
        /\ \E i, j \in DOMAIN tfmOut[p].log :
             /\ i < j
             /\ tfmOut[p].log[i].what = "warned"
             /\ tfmOut[p].log[i].times = maxTry
             /\ IsDir(fs, tfmOut[p].log[i].name)
             /\ tfmOut[p].log[j].what = "removed"
             /\ tfmOut[p].log[j].times = maxTry - 1
             /\ tfmOut[p].log[j].isDir
             /\ ~Exists(fs, tfmOut[p].log[j].name)

\* C25: the objects a CleanUp call handles are, in this order, the
\* registered files from the last registered to the first and then the
\* registered directories from the last registered to the first; no
\* directory is handled before every file has been handled.
C25_CleanUpOrder ==
    [][ \A p \in Managers :
          (tfmOut'[p].op = "CleanUp" /\ nCalls'[p] # nCalls[p]) =>
            LET log == tfmOut'[p].log
                nf == Len(fileDB[p])
                nd == Len(dirDB[p])
            IN  /\ Len(log) <= nf + nd
                /\ tfmOut'[p].outcome = "ok" => Len(log) = nf + nd
                /\ \A i \in DOMAIN log :
                     /\ log[i].what \in {"removed", "skipped", "warned", "raised"}
                     /\ IF i <= nf
                        THEN /\ log[i].name = fileDB[p][nf - i + 1].name
                             /\ ~log[i].isDir
                        ELSE /\ log[i].name = dirDB[p][nd - (i - nf) + 1].name
                             /\ log[i].isDir ]_vars

C25_Witness ==
    \E p \in Managers :
        /\ tfmOut[p].op = "CleanUp"
        /\ tfmOut[p].outcome = "ok"
        /\ Len(tfmOut[p].log) = 3
        /\ ~tfmOut[p].log[1].isDir /\ tfmOut[p].log[1].what = "removed"
        /\ ~tfmOut[p].log[2].isDir /\ tfmOut[p].log[2].what = "removed"
        /\ tfmOut[p].log[1].name # tfmOut[p].log[2].name
        /\ tfmOut[p].log[3].isDir /\ tfmOut[p].log[3].what = "removed"

\* C30: root allocation with an empty root, or with a root that does not
\* exist, returns normally, adds exactly one entry, an owned directory, to
\* the directory collection, and makes that directory the working root: for
\* an empty root a new directory under the default temporary directory, for
\* a root that does not exist the root itself, now created, or a new
\* directory under the default temporary directory.
C30_FallbackChain ==
    [][ \A p \in Managers : \A rootDir \in RootInputs :
          LET r == IF rootDir # << >> THEN abspath(expanduser(rootDir)) ELSE << >>
              t == defaultRootDir'[p]
              InTmp == t # << >> /\ dirname(t) = gettempdir /\ ~Exists(fs, t)
          IN  ((rootDir = << >> \/ ~Exists(fs, r)) /\ Allocates(p, rootDir)) =>
                  /\ tfmOut'[p].outcome = "ok"
                  /\ dirDB'[p] = Append(dirDB[p], TempFile(t, TRUE, TRUE))
                  /\ IsDir(fs', t)
                  /\ IF rootDir = << >> THEN InTmp ELSE t = r \/ InTmp ]_vars

\* ------------------------------------------------ claims C31 to C38
\* C31: a SetRootDir call leaves every registered file and every registered
\* directory as it was, deletes nothing, and adds at most one entry, at the
\* end of the directory collection: the new working root, owned, when one was
\* made.  The entries registered before the call, the previous working root
\* among them, are handled by the next CleanUp that completes: each has its
\* entry in what CleanUp did, and an owned one that is still on disk
\* afterwards is one whose deletion was given up with a warning, unless the
\* call deleted nothing at all.
C31_SetRootDirNotRetroactive ==
    [][ \A p \in Managers :
          /\ \A rootDir \in RootInputs :
               ( /\ tfmOut'[p].op = "SetRootDir"
                 /\ SetRootDir(p, rootDir) ) =>
                   /\ fileDB'[p] = fileDB[p]
                   /\ \A q \in DOMAIN fs : q \in DOMAIN fs' /\ fs'[q] = fs[q]
                   /\ IF tfmOut'[p].outcome = "ok" /\ defaultRootDir'[p] # << >>
                      THEN dirDB'[p] = Append(dirDB[p],
                                              TempFile(defaultRootDir'[p], TRUE, TRUE))
                      ELSE dirDB'[p] = dirDB[p]
                   /\ tfmOut'[p].outcome # "ok" => defaultRootDir'[p] = defaultRootDir[p]
          /\ ( /\ tfmOut'[p].op = "CleanUp"
               /\ tfmOut'[p].outcome = "ok"
               /\ nCalls'[p] # nCalls[p] ) =>
                 LET log == tfmOut'[p].log
                     nf == Len(fileDB[p])
                     nd == Len(dirDB[p])
                 IN  /\ Len(log) = nf + nd
                     /\ \A k \in 1..nd :
                          LET e == log[nf + k]
                              obj == dirDB[p][nd - k + 1]
                          IN  /\ e.name = obj.name
                              /\ (obj.own /\ Exists(fs', obj.name)) =>
                                   \/ e.what = "warned"
                                   \/ \A j \in DOMAIN log : log[j].what = "skipped" ]_vars

\* after SetRootDir the previous working root is still registered, owned and
\* on disk, and the working root is the directory registered last
C31_Witness ==
    \E p \in Managers :
        /\ tfmOut[p].op = "SetRootDir"
        /\ tfmOut[p].outcome = "ok"
        /\ Len(dirDB[p]) = 2
        /\ dirDB[p][1].own /\ IsDir(fs, dirDB[p][1].name)
        /\ dirDB[p][2] = TempFile(defaultRootDir[p], TRUE, TRUE)
        /\ dirDB[p][1].name # defaultRootDir[p]

\* C32: whenever the working root of a manager is not empty, it is the
\* name of an owned directory entry of the directory collection.
C32_WorkingRootIsOwned ==
    \A p \in Managers :
        defaultRootDir[p] # << >> =>
            \E k \in DOMAIN dirDB[p] :
                dirDB[p][k] = TempFile(defaultRootDir[p], TRUE, TRUE)

\* a CleanUp that os.remove left with an exception: the working root is
\* kept and so is its registration
C32_Witness ==
    \E p \in Managers :
        /\ tfmOut[p].op = "CleanUp"
        /\ tfmOut[p].outcome = "OSError"
        /\ defaultRootDir[p] # << >>
        /\ defaultRootDir[p] \in OwnedOf(dirDB[p])

\* C33: a RegisterNewTmpFile call ends with the IOError of line 138 only
\* when neither a root is given nor a working root is set, never with the
\* IOError of a double registration; when it succeeds, the path it made is
\* directly under the chosen root, did not exist and was not registered
\* before, exists afterwards as a directory iff isDir, and is registered
\* exactly once, owned, in the directory collection iff isDir.
C33_ScratchCreationPostcondition ==
    [][ \A p \in Managers :
          tfmOut'[p].op = "RegisterNewTmpFile" =>
            \A isDir \in BOOLEAN :
            \A rootDirIn \in {<< >>, <<"scratch">>} \cup NamesOf(dirDB[p]) :
              RegisterNewTmpFile(p, isDir, rootDirIn) =>
                LET rootDir == IF rootDirIn = << >> THEN defaultRootDir[p] ELSE rootDirIn
                    t == tfmOut'[p].log[1]
                    Times(db) == Cardinality({ k \in DOMAIN db : db[k].name = t })
                IN  /\ tfmOut'[p].outcome = "IOError" =>
                          rootDirIn = << >> /\ defaultRootDir[p] = << >>
                    /\ tfmOut'[p].outcome = "ok" =>
                          /\ t # << >> /\ dirname(t) = rootDir
                          /\ ~Exists(fs, t)
                          /\ Exists(fs', t) /\ (fs'[t] = "dir") = isDir
                          /\ t \notin NamesOf(fileDB[p]) \cup NamesOf(dirDB[p])
                          /\ Times(fileDB'[p]) + Times(dirDB'[p]) = 1
                          /\ IF isDir
                             THEN /\ dirDB'[p] = Append(dirDB[p], TempFile(t, TRUE, TRUE))
                                  /\ fileDB'[p] = fileDB[p]
                             ELSE /\ fileDB'[p] = Append(fileDB[p], TempFile(t, TRUE, FALSE))
                                  /\ dirDB'[p] = dirDB[p] ]_vars

\* a new directory made under a directory that was registered before
C33_Witness ==
    \E p \in Managers :
        /\ tfmOut[p].op = "RegisterNewTmpFile"
        /\ tfmOut[p].outcome = "ok"
        /\ Len(dirDB[p]) >= 2
        /\ dirDB[p][Len(dirDB[p])] = TempFile(tfmOut[p].log[1], TRUE, TRUE)
        /\ dirname(tfmOut[p].log[1]) \in NamesOf(dirDB[p])
        /\ IsDir(fs, tfmOut[p].log[1])

\* C34: after every CleanUp call the working root is empty, and an empty
\* working root after CleanUp goes with two empty collections.
C34_CleanUpClearsRoot ==
    \A p \in Managers :
        tfmOut[p].op = "CleanUp" =>
            /\ defaultRootDir[p] = << >>
            /\ fileDB[p] = << >> /\ dirDB[p] = << >>

\* C35: a step of a process that deletes the marker is a step of the
\* process whose touch created it.
C35_RemovesOnlyOwnMarker ==
    [][ \A p \in Procs :
          ( /\ pc[p] \in {"L246", "L255"}
            /\ pc'[p] # pc[p]
            /\ isExist(dbLock(p))
            /\ ~Exists(fs', dbLock(p)) ) => lockCreator = p ]_vars

\* C36: a CleanUp(False) call returns normally, leaves the filesystem as it
\* is and empties both collections; and no CleanUp call, whatever its
\* argument and its outcome, deletes a path that is neither a registered
\* owned path nor under a registered owned path.
C36_CleanUpFrame ==
    [][ \A p \in Managers :
          (tfmOut'[p].op = "CleanUp" /\ nCalls'[p] # nCalls[p]) =>
            /\ \A q \in DOMAIN fs : q \notin DOMAIN fs' => OwnedAbove(p, q)
            /\ \A q \in DOMAIN fs' : q \in DOMAIN fs /\ fs[q] = fs'[q]
            /\ ( \/ fs' # fs
                 \/ tfmOut'[p].outcome # "ok"
                 \/ fileDB'[p] # << >>
                 \/ dirDB'[p] # << >> ) => ~CleanUp(p, FALSE) ]_vars

\* CleanUp(False) on a manager with an owned file and an owned directory:
\* both are still on disk
C36_Witness ==
    \E p \in Managers :
        /\ tfmOut[p].op = "CleanUp"
        /\ tfmOut[p].outcome = "ok"
        /\ Len(tfmOut[p].log) >= 2
        /\ \A k \in DOMAIN tfmOut[p].log :
             /\ tfmOut[p].log[k].what = "skipped"
             /\ Exists(fs, tfmOut[p].log[k].name)
        /\ ~tfmOut[p].log[1].isDir
        /\ dirname(tfmOut[p].log[1].name) = tfmOut[p].log[Len(tfmOut[p].log)].name
        /\ fileDB[p] = << >> /\ dirDB[p] = << >>

\* C37: a CleanUp call that follows at once on a CleanUp call that returned
\* normally returns normally too, handles nothing and changes neither the
\* collections, nor the working root, nor the filesystem.
C37_CleanUpIdempotent ==
    [][ \A p \in Managers :
          ( /\ tfmOut[p].op = "CleanUp"
            /\ tfmOut[p].outcome = "ok"
            /\ tfmOut'[p].op = "CleanUp"
            /\ nCalls'[p] # nCalls[p] ) =>
              /\ tfmOut'[p] = Out("CleanUp", "ok", << >>)
              /\ fs' = fs
              /\ fileDB'[p] = fileDB[p]
              /\ dirDB'[p] = dirDB[p]
              /\ defaultRootDir'[p] = defaultRootDir[p] ]_vars

\* construction under the scratch directory, a CleanUp that left the working
\* root on disk, and a second CleanUp
C37_Witness ==
    \E p \in Managers :
        /\ nCalls[p] = 3
        /\ tfmOut[p] = Out("CleanUp", "ok", << >>)
        /\ \E n \in DOMAIN TmpNames : IsDir(fs, <<"scratch", TmpNames[n]>>)
        /\ fileDB[p] = << >> /\ dirDB[p] = << >> /\ defaultRootDir[p] = << >>

\* C38: a call of _resolveAlgorithmOptions that has begun ends: it returns
\* the options or raises ValueError.
C38_OptionResolutionTerminates ==
    (optPc # "idle") ~> (optPc \in {"returned", "raised"})

====
